---- MODULE Spec2Model ----
(***************************************************************************)
(* Model of `now certs` (src/src/providers/sh/commands/certs.js).          *)
(*                                                                         *)
(* One process run: main() parses the arguments, run() dispatches on the   *)
(* subcommand, and every `await` of run()/getCertIdCn()/readConfirmation() *)
(* is a step boundary.  The remote client (NowCerts), the file system and  *)
(* standard input are the environment: what they return is chosen with \E  *)
(* when the awaiting code resumes.                                         *)
(*                                                                         *)
(* Strings the code inspects character by character (certificate names,    *)
(* the confirmation line) are tuples of one-character strings.             *)
(***************************************************************************)
EXTENDS Integers, Sequences, FiniteSets, TLC

(* ------------------------------ bounds -------------------------------- *)

MaxCerts == 3
MaxArgs == 2
MaxChunk == 2

(* --------------------------- input alphabets -------------------------- *)

\* Subcommand words; "bogus" stands for any word run() does not recognise.
NoSub == "<none>"
Subcommands == {"ls", "list", "create", "renew", "replace", "rm", "remove", "bogus"}

\* Values mri gives a `string` option: absent, given without a value, a path.
NoFlag == "<undefined>"
FlagVals == {NoFlag, "", "f.pem"}

\* Certificate names and ids.  <<"a">> is both an id and a cn, so that one
\* argument can match one entry by uid and another by cn.
CnSet == {<<"a">>, <<"a", "b">>, <<"b">>}
UidSet == {<<"a">>, <<"u">>}
ArgSet == {<<"a">>, <<"b">>, <<"u">>}
Certs == [uid : UidSet, cn : CnSet]

\* `undefined` (args[0] of an empty list) and `null` (no certificate).
NoArg == <<>>
NoCert == [uid |-> <<>>, cn |-> <<>>]

\* Characters standard input may deliver.
Whitespace == {" ", "\n"}
Chars == {"y", "Y", "n"} \cup Whitespace

SeqUpTo(S, n) == UNION {[1..k -> S] : k \in 0..n}
NonEmptySeqUpTo(S, n) == UNION {[1..k -> S] : k \in 1..n}

(* ------------------------------- state -------------------------------- *)

VARIABLES
    argv,        \* parsed flags: help, crt, key, ca
    subcommand,  \* argv._[0] after the command word is dropped, or NoSub
    args,        \* argv._.slice(1): the positional arguments
    pc,          \* where the run is
    log,         \* what the run has done so far, in order
    fetched,     \* the list certs.ls() resolved with, while its frame lives
    thecert,     \* what getCertIdCn returned
    chunk,       \* the data standard input delivered to the prompt
    yes,         \* what readConfirmation resolved with
    target,      \* the cn the mutating client call was addressed to
    printed,     \* the table rows `ls` wrote, in order
    created,     \* what certs.create / certs.put resolved with in `create`
    threw,       \* an error was thrown and reached main's catch
    exitTimer,   \* the code of the first pending exit(), or NoExit
    exitCode     \* the code the process ended with, or NoExit

vars == <<argv, subcommand, args, pc, log, fetched, thecert, chunk, yes,
          target, printed, created, threw, exitTimer, exitCode>>

NoExit == 0 - 1

ClientCalls == {"ls", "create", "put", "renew", "delete", "close"}
Mutating == {"create", "put", "renew", "delete"}

Count(l, S) == Cardinality({i \in DOMAIN l : l[i] \in S})
Has(l, e) == \E i \in DOMAIN l : l[i] = e

(* ------------------------- pure helpers of the code ------------------- *)

\* JavaScript truthiness of an option value: undefined and '' are falsy.
Truthy(v) == v # NoFlag /\ v # ""

\* exit(code): schedules process.exit(code) and returns a promise that never
\* resolves.  The timer set first fires first.
Exit(code) == IF exitTimer = NoExit THEN code ELSE exitTimer

\* Collation weight of a character, as localeCompare orders it.
Weight(c) == CASE c = "a" -> 1 [] c = "b" -> 2 [] c = "u" -> 3 [] OTHER -> 0

RECURSIVE localeCompare(_, _)
localeCompare(s, t) ==
    IF s = <<>> /\ t = <<>> THEN 0
    ELSE IF s = <<>> THEN 0 - 1
    ELSE IF t = <<>> THEN 1
    ELSE IF Weight(Head(s)) < Weight(Head(t)) THEN 0 - 1
    ELSE IF Weight(Head(s)) > Weight(Head(t)) THEN 1
    ELSE localeCompare(Tail(s), Tail(t))

\* The comparator handed to list.sort.
cmpCnSwapped(a, b) == localeCompare(b.cn, a.cn)
cmpCn(a, b) == localeCompare(a.cn, b.cn)

\* Array.prototype.sort with a comparator: a stable insertion sort.
RECURSIVE insert(_, _)
insert(x, l) ==
    IF l = <<>> THEN <<x>>
    ELSE IF cmpCn(Head(l), x) > 0 THEN <<x>> \o l
    ELSE <<Head(l)>> \o insert(x, Tail(l))

RECURSIVE sort(_)
sort(l) == IF l = <<>> THEN <<>> ELSE insert(l[Len(l)], sort(SubSeq(l, 1, Len(l) - 1)))

\* String.prototype.trim and toLowerCase on the characters of Chars.
RECURSIVE trimStart(_)
trimStart(d) == IF d # <<>> /\ Head(d) \in Whitespace THEN trimStart(Tail(d)) ELSE d

RECURSIVE trimEnd(_)
trimEnd(d) ==
    IF d # <<>> /\ d[Len(d)] \in Whitespace THEN trimEnd(SubSeq(d, 1, Len(d) - 1)) ELSE d

trim(d) == trimEnd(trimStart(d))

lowerChar(c) == CASE c = "Y" -> "y" [] c = "N" -> "n" [] OTHER -> c
toLowerCase(d) == [i \in DOMAIN d |-> lowerChar(d[i])]

\* readConfirmation's verdict on the data it read.
isYesCaseSensitive(d) == trim(d) = <<"y">>
isYes(d) == toLowerCase(trim(d)) = <<"y">>

\* getCertIdCn: the first entry whose uid or cn is idOrCn, or null.
matching(list, idOrCn) ==
    SelectSeq(list, LAMBDA cert : cert.uid = idOrCn \/ cert.cn = idOrCn)

getCertIdCnLast(list, idOrCn) ==
    IF matching(list, idOrCn) = <<>> THEN NoCert
    ELSE matching(list, idOrCn)[Len(matching(list, idOrCn))]

getCertIdCnOrFirst(list, idOrCn) ==
    IF matching(list, idOrCn) # <<>> THEN Head(matching(list, idOrCn))
    ELSE IF list # <<>> THEN Head(list)
    ELSE NoCert

getCertIdCn(list, idOrCn) ==
    IF matching(list, idOrCn) = <<>> THEN NoCert ELSE Head(matching(list, idOrCn))

\* The guards of main() and run().
wantsHelpFlagOnly == argv.help
wantsHelp == argv.help \/ subcommand = NoSub

lsArgsAny(n) == FALSE
lsArgsBad(n) == n # 0
oneArgBad(n) == n # 1

customFlags == Truthy(argv.crt) \/ Truthy(argv.key) \/ Truthy(argv.ca)
missingCrtKey == ~Truthy(argv.crt) \/ ~Truthy(argv.key)

\* args[0]
firstArg == IF args = <<>> THEN NoArg ELSE args[1]

\* The client method each confirming subcommand calls.
mutatingCall ==
    CASE subcommand = "renew" -> "renew"
      [] subcommand = "replace" -> "put"
      [] OTHER -> "delete"

\* Recording one call on the client.
invokeTwice(l, call) == l \o <<call, call>>
invoke(l, call) == Append(l, call)

\* readX509File for --crt, --key and, when given, --ca: nFiles reads, of which
\* read number failAt throws (0: none does).
nFiles == IF Truthy(argv.ca) THEN 3 ELSE 2
readFiles(l, failAt) ==
    l \o [i \in 1..(IF failAt = 0 THEN nFiles ELSE failAt) |-> "readFile"]

(* ------------------------------- Init --------------------------------- *)

Init ==
    /\ argv \in [help : BOOLEAN, crt : FlagVals, key : FlagVals, ca : FlagVals]
    /\ subcommand \in Subcommands \cup {NoSub}
    /\ args \in SeqUpTo(ArgSet, MaxArgs)
    /\ subcommand = NoSub => args = <<>>
    /\ pc = "main"
    /\ log = <<>>
    /\ fetched = <<>>
    /\ thecert = NoCert
    /\ chunk = <<>>
    /\ yes = FALSE
    /\ target = NoArg
    /\ printed = <<>>
    /\ created = "none"
    /\ threw = FALSE
    /\ exitTimer = NoExit
    /\ exitCode = NoExit

(* ------------------------------ actions ------------------------------- *)

\* `return exit(code)` / `await exit(code)`: nothing of this run resumes.
Halt(l, code) ==
    /\ log' = l
    /\ exitTimer' = Exit(code)
    /\ pc' = "halted"
    /\ threw' = threw

\* A throw inside run(): main's catch calls handleError and exit(1).
Caught(l) ==
    /\ log' = l
    /\ exitTimer' = Exit(1)
    /\ pc' = "halted"
    /\ threw' = TRUE

\* `return certs.close()`, which may itself throw.
Close(l) ==
    \E ok \in BOOLEAN :
        /\ log' = invoke(l, "close")
        /\ exitTimer' = IF ok THEN exitTimer ELSE Exit(1)
        /\ pc' = "halted"
        /\ threw' = ~ok

\* main(): help, or on to run().
main ==
    /\ pc = "main"
    /\ IF wantsHelp
       THEN Halt(Append(log, "help"), 0)
       ELSE /\ pc' = "run"
            /\ UNCHANGED <<log, exitTimer, threw>>
    /\ UNCHANGED <<argv, subcommand, args, fetched, thecert, chunk, yes,
                   target, printed, created, exitCode>>

\* run(), `ls`/`list`, up to `await certs.ls()`.
runLs ==
    /\ pc = "run"
    /\ subcommand \in {"ls", "list"}
    /\ IF lsArgsBad(Len(args))
       THEN Halt(Append(log, "new"), 1)
       ELSE /\ log' = invoke(Append(log, "new"), "ls")
            /\ pc' = "ls_wait"
            /\ UNCHANGED <<exitTimer, threw>>
    /\ UNCHANGED <<argv, subcommand, args, fetched, thecert, chunk, yes,
                   target, printed, created, exitCode>>

\* run(), `ls`, after certs.ls() settles: sort, print the rows, close.
lsDone ==
    /\ pc = "ls_wait"
    /\ \/ /\ Caught(log)
          /\ UNCHANGED <<fetched, printed>>
       \/ \E list \in SeqUpTo(Certs, MaxCerts) :
            /\ fetched' = list
            /\ printed' = IF Len(list) > 0 THEN sort(list) ELSE <<>>
            /\ Close(log)
    /\ UNCHANGED <<argv, subcommand, args, thecert, chunk, yes, target,
                   created, exitCode>>

\* run(), `create`, up to `await certs.put(...)` or `await certs.create(cn)`.
runCreate ==
    /\ pc = "run"
    /\ subcommand = "create"
    /\ IF oneArgBad(Len(args))
       THEN Halt(Append(log, "new"), 1) /\ target' = target
       ELSE IF customFlags
       THEN IF missingCrtKey
            THEN Halt(Append(log, "new"), 1) /\ target' = target
            ELSE \E failAt \in 0..nFiles :
                   IF failAt # 0
                   THEN Caught(readFiles(Append(log, "new"), failAt)) /\ target' = target
                   ELSE /\ log' = invoke(readFiles(Append(log, "new"), 0), "put")
                        /\ target' = firstArg
                        /\ pc' = "create_wait"
                        /\ UNCHANGED <<exitTimer, threw>>
       ELSE /\ log' = invoke(Append(log, "new"), "create")
            /\ target' = firstArg
            /\ pc' = "create_wait"
            /\ UNCHANGED <<exitTimer, threw>>
    /\ UNCHANGED <<argv, subcommand, args, fetched, thecert, chunk, yes,
                   printed, created, exitCode>>

\* run(), `create`, after the client call settles.  certs.create resolves
\* with nothing when the certificate is already issued.
createDone ==
    /\ pc = "create_wait"
    /\ \/ /\ Caught(log)
          /\ created' = created
       \/ /\ Has(log, "create")
          /\ created' = "falsy"
          /\ Halt(log, 1)
       \/ /\ created' = "cert"
          /\ Close(log)
    /\ UNCHANGED <<argv, subcommand, args, fetched, thecert, chunk, yes,
                   target, printed, exitCode>>

\* run(), `renew` and `rm`/`remove`, up to getCertIdCn's `await certs.ls()`.
runRenewRm ==
    /\ pc = "run"
    /\ subcommand \in {"renew", "rm", "remove"}
    /\ IF oneArgBad(Len(args))
       THEN Halt(Append(log, "new"), 1)
       ELSE /\ log' = invoke(Append(log, "new"), "ls")
            /\ pc' = "resolve_wait"
            /\ UNCHANGED <<exitTimer, threw>>
    /\ UNCHANGED <<argv, subcommand, args, fetched, thecert, chunk, yes,
                   target, printed, created, exitCode>>

\* run(), `replace`, up to getCertIdCn's `await certs.ls()`.
runReplace ==
    /\ pc = "run"
    /\ subcommand = "replace"
    /\ IF missingCrtKey
       THEN Halt(Append(log, "new"), 1)
       ELSE \E failAt \in 0..nFiles :
              IF failAt # 0
              THEN Caught(readFiles(Append(log, "new"), failAt))
              ELSE /\ log' = invoke(readFiles(Append(log, "new"), 0), "ls")
                   /\ pc' = "resolve_wait"
                   /\ UNCHANGED <<exitTimer, threw>>
    /\ UNCHANGED <<argv, subcommand, args, fetched, thecert, chunk, yes,
                   target, printed, created, exitCode>>

\* run(), any other subcommand: error, help, exit(1), and then close.
runUnknown ==
    /\ pc = "run"
    /\ subcommand \notin {"ls", "list", "create", "renew", "replace", "rm", "remove"}
    /\ log' = invoke(log \o <<"new", "help">>, "close")
    /\ exitTimer' = Exit(1)
    /\ pc' = "halted"
    /\ \E ok \in BOOLEAN : threw' = ~ok
    /\ UNCHANGED <<argv, subcommand, args, fetched, thecert, chunk, yes,
                   target, printed, created, exitCode>>

\* getCertIdCn after certs.ls() settles: pick the certificate, or report
\* that there is none.
resolve ==
    /\ pc = "resolve_wait"
    /\ \/ /\ Caught(log)
          /\ UNCHANGED <<fetched, thecert>>
       \/ \E list \in SeqUpTo(Certs, MaxCerts) :
            /\ fetched' = list
            /\ thecert' = getCertIdCn(list, firstArg)
            /\ log' = IF getCertIdCn(list, firstArg) = NoCert
                      THEN Append(log, "notfound") ELSE log
            /\ pc' = "resolved"
            /\ UNCHANGED <<exitTimer, threw>>
    /\ UNCHANGED <<argv, subcommand, args, chunk, yes, target, printed,
                   created, exitCode>>

\* run() resumes with getCertIdCn's result: exit(1) without one, else
\* readConfirmation prints the prompt and listens on standard input.
\* getCertIdCn's list is gone with its frame.
prompt ==
    /\ pc = "resolved"
    /\ fetched' = <<>>
    /\ IF thecert = NoCert
       THEN Halt(log, 1)
       ELSE /\ log' = Append(log, "prompt")
            /\ pc' = "confirm_wait"
            /\ UNCHANGED <<exitTimer, threw>>
    /\ UNCHANGED <<argv, subcommand, args, thecert, chunk, yes, target,
                   printed, created, exitCode>>

\* The 'data' listener of readConfirmation: pause, resolve with the verdict.
stdinData ==
    /\ pc = "confirm_wait"
    /\ \E d \in NonEmptySeqUpTo(Chars, MaxChunk) :
         /\ chunk' = d
         /\ yes' = isYes(d)
    /\ log' = Append(log, "read")
    /\ pc' = "confirmed"
    /\ UNCHANGED <<argv, subcommand, args, fetched, thecert, target, printed,
                   created, threw, exitTimer, exitCode>>

\* run() resumes with the verdict: abort with exit(0), or call the client.
confirmed ==
    /\ pc = "confirmed"
    /\ IF ~yes
       THEN Halt(log, 0) /\ target' = target
       ELSE /\ log' = invoke(log, mutatingCall)
            /\ target' = thecert.cn
            /\ pc' = "mutate_wait"
            /\ UNCHANGED <<exitTimer, threw>>
    /\ UNCHANGED <<argv, subcommand, args, fetched, thecert, chunk, yes,
                   printed, created, exitCode>>

\* run() after certs.renew / certs.put / certs.delete settles.
mutateDone ==
    /\ pc = "mutate_wait"
    /\ \/ Caught(log)
       \/ Close(log)
    /\ UNCHANGED <<argv, subcommand, args, fetched, thecert, chunk, yes,
                   target, printed, created, exitCode>>

\* The process ends: with the pending exit() code, or 0 when none is pending.
processExit ==
    /\ pc = "halted"
    /\ exitCode' = IF exitTimer = NoExit THEN 0 ELSE exitTimer
    /\ pc' = "exited"
    /\ UNCHANGED <<argv, subcommand, args, log, fetched, thecert, chunk, yes,
                   target, printed, created, threw, exitTimer>>

Next ==
    \/ main
    \/ runLs
    \/ lsDone
    \/ runCreate
    \/ createDone
    \/ runRenewRm
    \/ runReplace
    \/ runUnknown
    \/ resolve
    \/ prompt
    \/ stdinData
    \/ confirmed
    \/ mutateDone
    \/ processExit

Spec == Init /\ [][Next]_vars

TypeOK ==
    /\ pc \in {"main", "run", "ls_wait", "create_wait", "resolve_wait", "resolved",
               "confirm_wait", "confirmed", "mutate_wait", "halted", "exited"}
    /\ exitTimer \in {NoExit, 0, 1}
    /\ exitCode \in {NoExit, 0, 1}
    /\ thecert \in Certs \cup {NoCert}
    /\ created \in {"none", "cert", "falsy"}

(* ------------------------ vocabulary of the claims -------------------- *)

Confirming == {"renew", "replace", "rm", "remove"}

\* The call each confirming subcommand is documented to make.
DocumentedCall ==
    CASE subcommand = "renew" -> "renew"
      [] subcommand = "replace" -> "put"
      [] subcommand \in {"rm", "remove"} -> "delete"
      [] OTHER -> "none"

\* A line that is "y" in either case, with white space around it.
YesLine(d) ==
    \E i \in DOMAIN d :
        /\ d[i] \in {"y", "Y"}
        /\ \A j \in DOMAIN d \ {i} : d[j] \in Whitespace

Matches(cert, a) == cert.uid = a \/ cert.cn = a
NoMatch(list, a) == \A i \in DOMAIN list : ~Matches(list[i], a)

\* s sorts at or before t: s is a prefix of t, or is smaller where they first differ.
LexLeq(s, t) ==
    \/ /\ Len(s) <= Len(t)
       /\ \A i \in 1..Len(s) : s[i] = t[i]
    \/ \E k \in 1..Len(s) :
        /\ k <= Len(t)
        /\ \A i \in 1..(k - 1) : s[i] = t[i]
        /\ Weight(s[k]) < Weight(t[k])

SameRows(p, f) ==
    /\ Len(p) = Len(f)
    /\ \A c \in Certs : Count(p, {c}) = Count(f, {c})

CnsOf(l) == [i \in DOMAIN l |-> l[i].cn]

\* An option that appears on the command line, with or without a value.
Given(v) == v # NoFlag
\* An option that appears with a value.
HasValue(v) == v \notin {NoFlag, ""}

Exited == pc = "exited"

(* -------------------------------- C1 ---------------------------------- *)

\* C1: once renew, replace or rm has shown its prompt and read a line, a line
\* that is "y" after trimming and lower-casing leads to exactly one mutating
\* call, the subcommand's own; any other line leads to no mutating call at all
\* and to exit code 0.
C1_ConfirmationDecides ==
    Has(log, "read") =>
        IF YesLine(chunk)
        THEN pc \in {"mutate_wait", "halted", "exited"} =>
                /\ Count(log, {DocumentedCall}) = 1
                /\ Count(log, Mutating) = 1
        ELSE /\ Count(log, Mutating) = 0
             /\ Exited => exitCode = 0

C1_Witness ==
    /\ Exited
    /\ subcommand = "renew"
    /\ chunk = <<"Y", "\n">>
    /\ Count(log, {"renew"}) = 1

(* -------------------------------- C2 ---------------------------------- *)

\* C2: when no entry of the fetched list has the argument as uid or cn, the
\* lookup reports "not found"; after that no prompt is shown, no mutating call
\* is made and the run ends with exit code 1.
C2_NotFoundAborts ==
    /\ (pc = "resolved" /\ NoMatch(fetched, firstArg)) => Has(log, "notfound")
    /\ Has(log, "notfound") =>
        /\ ~Has(log, "prompt")
        /\ ~Has(log, "read")
        /\ Count(log, Mutating) = 0
        /\ Exited => exitCode = 1

C2_Witness ==
    /\ Exited
    /\ subcommand = "rm"
    /\ Len(args) = 1
    /\ Has(log, "notfound")
    /\ exitCode = 1

(* -------------------------------- C3 ---------------------------------- *)

PartialGiven ==
    \/ Given(argv.crt) /\ ~Given(argv.key)
    \/ Given(argv.key) /\ ~Given(argv.crt)
    \/ subcommand = "create" /\ Given(argv.ca) /\ ~(Given(argv.crt) /\ Given(argv.key))

\* C3: create and replace with only part of the certificate options on the
\* command line read no file, call the client not at all and end with exit
\* code 1.
C3_PartialFlagsRejected ==
    (~argv.help /\ subcommand \in {"create", "replace"} /\ PartialGiven) =>
        /\ ~Has(log, "readFile")
        /\ Count(log, ClientCalls) = 0
        /\ Exited => exitCode = 1

PartialValues ==
    \/ HasValue(argv.crt) /\ ~HasValue(argv.key)
    \/ HasValue(argv.key) /\ ~HasValue(argv.crt)
    \/ subcommand = "create" /\ HasValue(argv.ca)
         /\ ~(HasValue(argv.crt) /\ HasValue(argv.key))

\* What the code does guarantee for C3: the same, for options that carry a
\* non-empty value.
PartialValuesRejected ==
    (~argv.help /\ subcommand \in {"create", "replace"} /\ PartialValues) =>
        /\ ~Has(log, "readFile")
        /\ Count(log, ClientCalls) = 0
        /\ Exited => exitCode = 1

(* -------------------------------- C4 ---------------------------------- *)

\* C4: the rows ls prints are exactly the certificates the client returned,
\* in ascending order of cn.
C4_ListSortedByCn ==
    (subcommand \in {"ls", "list"} /\ Has(log, "close")) =>
        /\ SameRows(printed, fetched)
        /\ \A i, j \in DOMAIN printed :
              i < j => LexLeq(printed[i].cn, printed[j].cn)

C4_Witness ==
    /\ Exited
    /\ subcommand = "ls"
    /\ CnsOf(fetched) = << <<"a", "b">>, <<"a">>, <<"b">> >>
    /\ CnsOf(printed) = << <<"a">>, <<"a", "b">>, <<"b">> >>

(* -------------------------------- C5 ---------------------------------- *)

\* C5: every run that created the client and did not throw has called close()
\* by the time the process ends.
C5_CloseOnEveryPath ==
    (Exited /\ Has(log, "new") /\ ~threw) => Has(log, "close")

(* -------------------------------- C6 ---------------------------------- *)

ExitAsCoded ==
    IF argv.help \/ subcommand = NoSub THEN 0
    ELSE IF threw THEN 1
    ELSE IF subcommand \in {"ls", "list"} THEN (IF Len(args) # 0 THEN 1 ELSE 0)
    ELSE IF subcommand = "create"
         THEN (IF \/ Len(args) # 1
                  \/ PartialValues
                  \/ created = "falsy"
               THEN 1 ELSE 0)
    ELSE IF subcommand \in {"renew", "rm", "remove"}
         THEN (IF Len(args) # 1 \/ Has(log, "notfound") THEN 1 ELSE 0)
    ELSE IF subcommand = "replace"
         THEN (IF \/ ~HasValue(argv.crt)
                  \/ ~HasValue(argv.key)
                  \/ Has(log, "notfound")
               THEN 1 ELSE 0)
    ELSE 1

ExitAsClaimed ==
    IF subcommand = NoSub THEN 1
    ELSE IF subcommand = "replace" /\ ~argv.help /\ Len(args) # 1 THEN 1
    ELSE ExitAsCoded

C7_ReplaceArity ==
    (/\ ~argv.help
     /\ subcommand = "replace"
     /\ HasValue(argv.crt)
     /\ HasValue(argv.key)
     /\ Len(args) # 1) =>
        /\ ~Has(log, "prompt")
        /\ ~Has(log, "put")
        /\ Exited => exitCode = 1

(* -------------------------------- C8 ---------------------------------- *)

\* C8: with --help, or with no subcommand, no client is created, no client
\* call and no prompt occur, help is printed and the exit code is 0.
C8_HelpDoesNothingElse ==
    (argv.help \/ subcommand = NoSub) =>
        /\ ~Has(log, "new")
        /\ Count(log, ClientCalls) = 0
        /\ ~Has(log, "prompt")
        /\ ~Has(log, "read")
        /\ pc \in {"halted", "exited"} => Has(log, "help")
        /\ Exited => exitCode = 0

C8_Witness ==
    /\ Exited
    /\ argv.help
    /\ subcommand = "rm"
    /\ Len(args) = 1
    /\ log = <<"help">>
    /\ exitCode = 0

(* -------------------------------- C9 ---------------------------------- *)

\* The place of a step in the documented order; 0 for steps it does not order.
Stage(e) ==
    CASE e = "ls" -> 1
      [] e = "prompt" -> 2
      [] e = "read" -> 3
      [] e \in Mutating -> 4
      [] e = "close" -> 5
      [] OTHER -> 0

UsageFailure ==
    /\ ~argv.help
    /\ \/ subcommand \in {"ls", "list"} /\ Len(args) # 0
       \/ subcommand \in {"create", "renew", "rm", "remove"} /\ Len(args) # 1
       \/ subcommand \in {"create", "replace"} /\ PartialValues
       \/ subcommand = "replace" /\ ~(HasValue(argv.crt) /\ HasValue(argv.key))

\* C9: the steps of a run occur in the order list fetch, prompt, read,
\* mutating call, close, none of them twice; close is the last client call; a
\* failed validation precedes every client call; and renew, replace and rm
\* make their mutating call only after the list fetch and an affirmative
\* answer.
C9_StepOrder ==
    /\ \A i, j \in DOMAIN log :
          (i < j /\ Stage(log[i]) > 0 /\ Stage(log[j]) > 0) =>
              Stage(log[i]) < Stage(log[j])
    /\ Has(log, "close") => log[Len(log)] = "close"
    /\ UsageFailure => Count(log, ClientCalls) = 0 /\ ~Has(log, "readFile")
    /\ (subcommand \in Confirming /\ Count(log, Mutating) > 0) =>
          /\ Has(log, "ls")
          /\ Has(log, "read")
          /\ YesLine(chunk)

C9_Witness ==
    log = <<"new", "readFile", "readFile", "ls", "prompt", "read", "put", "close">>

(* -------------------------------- C10 --------------------------------- *)

\* C10: the certificate picked is the first entry of the fetched list whose
\* uid or cn is the argument, and the mutating call of renew, replace and rm
\* is addressed to that entry's cn.
C10_FirstMatchByCn ==
    /\ (pc = "resolved" /\ ~NoMatch(fetched, firstArg)) =>
          \E i \in DOMAIN fetched :
              /\ Matches(fetched[i], firstArg)
              /\ \A j \in 1..(i - 1) : ~Matches(fetched[j], firstArg)
              /\ thecert = fetched[i]
    /\ (subcommand \in Confirming /\ Count(log, Mutating) > 0) =>
          /\ thecert # NoCert
          /\ Matches(thecert, firstArg)
          /\ target = thecert.cn

C10_Witness ==
    /\ Has(log, "delete")
    /\ thecert.uid = firstArg
    /\ thecert.cn # firstArg
    /\ target = thecert.cn

====
